---------------------------- MODULE Spec2Model ----------------------------
(***************************************************************************)
(* Model of go-aws-enumerator (src/main.go): the report driver main(), the *)
(* interactive branch PromptUserForPolicyVersionDetails() and the six IAM  *)
(* wrappers.  Bytes are integers (their ASCII codes); a printed line is a  *)
(* record [text, arg]: the format string and the value formatted into it.  *)
(***************************************************************************)
EXTENDS Integers, Sequences, FiniteSets, TLC

VARIABLES
    pc,                   \* position of the single thread in main()
    stdin,                \* bytes not yet read from standard input
    out,                  \* lines printed so far
    log,                  \* configuration result, remote calls issued / returned, Scanln reads, in order
    pending,              \* the remote operation in flight, or "none"
    currentUserDetails,   \* 0 = nil, else the user returned by GetUser
    userGroups,           \* userGroups.Groups
    userPolicies,         \* userPolicies.AttachedPolicies
    userInlinePolicies,   \* userInlinePolicies.PolicyNames
    input,                \* answer read at the y/n prompt
    policyArn,            \* ARN read from input
    versionId,            \* version ID read from input
    policyVersions,       \* policyVersions.Versions
    document,             \* policyVersionDetails.PolicyVersion.Document
    decodedDocument,      \* result of url.QueryUnescape: [err, val]
    text                  \* a policy text before the service URL-encodes it

vars == <<pc, stdin, out, log, pending, currentUserDetails, userGroups,
          userPolicies, userInlinePolicies, input, policyArn, versionId,
          policyVersions, document, decodedDocument, text>>

(***************************************************************************)
(* Bounds                                                                  *)
(***************************************************************************)
MaxStdin == 3      \* longest standard input, in bytes
MaxList == 2       \* longest list a list query returns
MaxText == 3       \* longest policy text, in bytes

\* ' ' '\n' 'Y' 'n' 'y'
StdinBytes == {32, 10, 89, 110, 121}
\* ' ' '%' '+' 'a' '{'
TextBytes == {32, 37, 43, 97, 123}

RECURSIVE SeqsUpTo(_, _)
SeqsUpTo(S, n) ==
    IF n = 0 THEN {<<>>}
    ELSE LET shorter == SeqsUpTo(S, n - 1)
         IN  shorter \cup {Append(s, x) : s \in {t \in shorter : Len(t) = n - 1}, x \in S}

Users == {1}
\* A returned list is the sequence of its elements, each named by its position.
Lists == {[i \in 1..n |-> i] : n \in 0..MaxList}

(***************************************************************************)
(* net/url: QueryEscape / QueryUnescape, byte by byte                      *)
(***************************************************************************)
upperhex == <<48, 49, 50, 51, 52, 53, 54, 55, 56, 57, 65, 66, 67, 68, 69, 70>>

ishex(c) == (c >= 48 /\ c <= 57) \/ (c >= 97 /\ c <= 102) \/ (c >= 65 /\ c <= 70)

unhex(c) ==
    IF c >= 48 /\ c <= 57 THEN c - 48
    ELSE IF c >= 97 /\ c <= 102 THEN c - 97 + 10
    ELSE IF c >= 65 /\ c <= 70 THEN c - 65 + 10
    ELSE 0

\* RFC 3986 unreserved bytes: letters, digits, '-' '.' '_' '~'
IsUnreserved(c) ==
    \/ (c >= 97 /\ c <= 122) \/ (c >= 65 /\ c <= 90) \/ (c >= 48 /\ c <= 57)
    \/ c \in {45, 46, 95, 126}

PercentTriple(c) == <<37, upperhex[(c \div 16) + 1], upperhex[(c % 16) + 1]>>

\* url.QueryEscape: space becomes '+', every other escaped byte %XX.
RECURSIVE QueryEscape(_)
QueryEscape(s) ==
    IF s = <<>> THEN <<>>
    ELSE LET c == Head(s)
         IN  (IF IsUnreserved(c) THEN <<c>>
              ELSE IF c = 32 THEN <<43>>
              ELSE PercentTriple(c)) \o QueryEscape(Tail(s))

\* RFC 3986 percent-encoding (what the IAM service applies): space becomes %20.
RECURSIVE PercentEncode(_)
PercentEncode(s) ==
    IF s = <<>> THEN <<>>
    ELSE LET c == Head(s)
         IN  (IF IsUnreserved(c) THEN <<c>> ELSE PercentTriple(c))
             \o PercentEncode(Tail(s))

\* First pass of url.unescape: every '%' is followed by two hex digits.
RECURSIVE EscapesValid(_)
EscapesValid(s) ==
    IF s = <<>> THEN TRUE
    ELSE IF Head(s) = 37
         THEN /\ Len(s) >= 3
              /\ ishex(s[2])
              /\ ishex(s[3])
              /\ EscapesValid(SubSeq(s, 4, Len(s)))
         ELSE EscapesValid(Tail(s))

\* Second pass of url.unescape in query-component mode.
RECURSIVE UnescapeBytes(_)
UnescapeBytes(s) ==
    IF s = <<>> THEN <<>>
    ELSE IF Head(s) = 37
         THEN <<unhex(s[2]) * 16 + unhex(s[3])>> \o UnescapeBytes(SubSeq(s, 4, Len(s)))
         ELSE IF Head(s) = 43
              THEN <<32>> \o UnescapeBytes(Tail(s))
              ELSE <<Head(s)>> \o UnescapeBytes(Tail(s))

\* A decoder that forgets the '+' rule (PathUnescape in place of QueryUnescape).
RECURSIVE PathUnescapeBytes(_)
PathUnescapeBytes(s) ==
    IF s = <<>> THEN <<>>
    ELSE IF Head(s) = 37
         THEN <<unhex(s[2]) * 16 + unhex(s[3])>> \o PathUnescapeBytes(SubSeq(s, 4, Len(s)))
         ELSE <<Head(s)>> \o PathUnescapeBytes(Tail(s))

QueryUnescapeNoPlus(s) ==
    IF EscapesValid(s) THEN [err |-> FALSE, val |-> PathUnescapeBytes(s)]
    ELSE [err |-> TRUE, val |-> <<>>]

QueryUnescape(s) ==
    IF EscapesValid(s) THEN [err |-> FALSE, val |-> UnescapeBytes(s)]
    ELSE [err |-> TRUE, val |-> <<>>]

\* Documents the GetPolicyVersion stub returns: encoded texts and malformed ones
\*   "" , "%7B+a" , "a%2Bb" , "%" , "%7" , "%zz"
Documents ==
    {<<>>, <<37, 55, 66, 43, 97>>, <<97, 37, 50, 66, 98>>,
     <<37>>, <<37, 55>>, <<37, 122, 122>>}

(***************************************************************************)
(* fmt.Scanln(&v) for one string, on the bytes left on standard input      *)
(***************************************************************************)
isSpace(c) == c \in {32, 9, 13}

RECURSIVE SkipSpace(_)
SkipSpace(s) ==
    IF s # <<>> /\ isSpace(Head(s)) THEN SkipSpace(Tail(s)) ELSE s

RECURSIVE token(_)
token(s) ==
    IF s = <<>> \/ isSpace(Head(s)) \/ Head(s) = 10 THEN <<>>
    ELSE <<Head(s)>> \o token(Tail(s))

\* [val: the string stored (empty when nothing was stored), rest: the bytes
\*  left unread, err: whether Scanln returned an error]
Scanln(s) ==
    LET s1 == SkipSpace(s)
    IN  IF s1 = <<>>
        THEN [val |-> <<>>, rest |-> <<>>, err |-> TRUE]             \* EOF
        ELSE IF Head(s1) = 10
        THEN [val |-> <<>>, rest |-> Tail(s1), err |-> TRUE]         \* unexpected newline
        ELSE LET tok == token(s1)
                 s2  == SkipSpace(SubSeq(s1, Len(tok) + 1, Len(s1)))
             IN  IF s2 = <<>>
                 THEN [val |-> tok, rest |-> <<>>, err |-> FALSE]
                 ELSE IF Head(s2) = 10
                 THEN [val |-> tok, rest |-> Tail(s2), err |-> FALSE]
                 ELSE [val |-> tok, rest |-> Tail(s2), err |-> TRUE] \* expected newline

(***************************************************************************)
(* Printed lines and logged events                                         *)
(***************************************************************************)
MAJOR_SEPARATOR == "====================================="
MINOR_SEPARATOR == "-------------------------------------"

Line(t, a) == [text |-> t, arg |-> a]
Println(t) == Line(t, <<>>)

CallEv(op) == [kind |-> "call", op |-> op, ok |-> TRUE]
RetEv(op, ok) == [kind |-> "ret", op |-> op, ok |-> ok]
ConfigEv(ok) == [kind |-> "config", op |-> "LoadDefaultConfig", ok |-> ok]
ScanEv(ok) == [kind |-> "scan", op |-> "Scanln", ok |-> ok]

\* The loop bodies of main() and of the interactive branch.
GroupBlock(g) ==
    <<Line("\tGroup name: %v", <<g>>), Line("\tGroup ARN: %v", <<g>>),
      Line("\tGroup ID: %v", <<g>>), Line("\tCreated on: %v", <<g>>),
      Println(MINOR_SEPARATOR)>>

AttachedPolicyBlock(p) ==
    <<Line("\tPolicy name: %v", <<p>>), Line("\tPolicy ARN: %v", <<p>>),
      Println(MINOR_SEPARATOR)>>

InlinePolicyBlock(p) ==
    <<Line("\tPolicy name: %v", <<p>>), Println(MINOR_SEPARATOR)>>

VersionBlock(v) ==
    <<Line("\tVersion ID: %v", <<v>>), Line("\tCreated on: %v", <<v>>), Println("")>>

Block(kind, x) ==
    CASE kind = "group"    -> GroupBlock(x)
      [] kind = "attached" -> AttachedPolicyBlock(x)
      [] kind = "inline"   -> InlinePolicyBlock(x)
      [] kind = "version"  -> VersionBlock(x)

\* A loop that starts at the second element.
RECURSIVE SkipFirstLoop(_, _)
SkipFirstLoop(list, kind) ==
    IF Len(list) <= 1 THEN <<>>
    ELSE Block(kind, list[2]) \o SkipFirstLoop(Tail(list), kind)

\* for _, x := range list { print the block of x }
RECURSIVE RangeLoop(_, _)
RangeLoop(list, kind) ==
    IF list = <<>> THEN <<>>
    ELSE Block(kind, Head(list)) \o RangeLoop(Tail(list), kind)

(***************************************************************************)
(* Initial state                                                           *)
(***************************************************************************)
Blank ==
    /\ out = <<>>
    /\ log = <<>>
    /\ pending = "none"
    /\ currentUserDetails = 0
    /\ userGroups = <<>>
    /\ userPolicies = <<>>
    /\ userInlinePolicies = <<>>
    /\ input = <<>>
    /\ policyArn = <<>>
    /\ versionId = <<>>
    /\ policyVersions = <<>>
    /\ document = <<>>
    /\ decodedDocument = [err |-> FALSE, val |-> <<>>]

Init ==
    /\ pc = "LoadDefaultConfig"
    /\ stdin \in SeqsUpTo(StdinBytes, MaxStdin)
    /\ text = <<>>
    /\ Blank

(***************************************************************************)
(* main()                                                                  *)
(***************************************************************************)
\* A main() that reports the configuration failure and carries on.
LoadDefaultConfigGoesOn ==
    /\ pc = "LoadDefaultConfig"
    /\ \E ok \in BOOLEAN :
          /\ log' = Append(log, ConfigEv(ok))
          /\ pc' = "GetUser"
          /\ out' = IF ok THEN out
                    ELSE out \o
                     <<Println("Couldn't load default configuration. Have you set up your AWS account?"),
                       Line("%v", <<>>)>>
    /\ UNCHANGED <<stdin, pending, currentUserDetails, userGroups, userPolicies,
                   userInlinePolicies, input, policyArn, versionId, policyVersions,
                   document, decodedDocument, text>>

\* main.go 24-31
LoadDefaultConfig ==
    /\ pc = "LoadDefaultConfig"
    /\ \E ok \in BOOLEAN :
          /\ log' = Append(log, ConfigEv(ok))
          /\ IF ok
             THEN /\ pc' = "GetUser"
                  /\ out' = out
             ELSE /\ pc' = "done"
                  /\ out' = out \o
                        <<Println("Couldn't load default configuration. Have you set up your AWS account?"),
                          Line("%v", <<>>)>>
    /\ UNCHANGED <<stdin, pending, currentUserDetails, userGroups, userPolicies,
                   userInlinePolicies, input, policyArn, versionId, policyVersions,
                   document, decodedDocument, text>>

\* main.go 33-38, 195: the request goes out and the thread blocks.
CallGetUser ==
    /\ pc = "GetUser" /\ pending = "none"
    /\ out' = out \o <<Println("Getting details for the current user..."),
                       Println(MAJOR_SEPARATOR)>>
    /\ log' = Append(log, CallEv("GetUser"))
    /\ pending' = "GetUser"
    /\ UNCHANGED <<pc, stdin, currentUserDetails, userGroups, userPolicies,
                   userInlinePolicies, input, policyArn, versionId, policyVersions,
                   document, decodedDocument, text>>

\* A main() that reports nothing itself when GetUserDetails fails.
ReturnGetUserQuiet ==
    /\ pc = "GetUser" /\ pending = "GetUser"
    /\ pending' = "none"
    /\ \E ok \in BOOLEAN :
          /\ log' = Append(log, RetEv("GetUser", ok))
          /\ IF ok
             THEN \E u \in Users :
                    /\ currentUserDetails' = u
                    /\ out' = out \o
                          <<Println("User details:"), Line("\tUsername: %v", <<u>>),
                            Line("\tUser ARN: %v", <<u>>), Line("\tUser ID: %v", <<u>>),
                            Line("\tCreated on: %v", <<u>>), Println(MAJOR_SEPARATOR)>>
                    /\ pc' = "ListGroupsForUser"
             ELSE /\ currentUserDetails' = 0
                  /\ out' = out \o
                        <<Line("Couldn't get details for the user. Here's why: %v", <<>>)>>
                  /\ pc' = "done"
    /\ UNCHANGED <<stdin, userGroups, userPolicies, userInlinePolicies, input,
                   policyArn, versionId, policyVersions, document, decodedDocument, text>>

\* main.go 195-202 (GetUserDetails), 39-49
ReturnGetUser ==
    /\ pc = "GetUser" /\ pending = "GetUser"
    /\ pending' = "none"
    /\ \E ok \in BOOLEAN :
          /\ log' = Append(log, RetEv("GetUser", ok))
          /\ IF ok
             THEN \E u \in Users :
                    /\ currentUserDetails' = u
                    /\ out' = out \o
                          <<Println("User details:"), Line("\tUsername: %v", <<u>>),
                            Line("\tUser ARN: %v", <<u>>), Line("\tUser ID: %v", <<u>>),
                            Line("\tCreated on: %v", <<u>>), Println(MAJOR_SEPARATOR)>>
                    /\ pc' = "ListGroupsForUser"
             ELSE /\ currentUserDetails' = 0
                  /\ out' = out \o
                        <<Line("Couldn't get details for the user. Here's why: %v", <<>>),
                          Println("Couldn't get details for the current user. Exiting...")>>
                  /\ pc' = "done"
    /\ UNCHANGED <<stdin, userGroups, userPolicies, userInlinePolicies, input,
                   policyArn, versionId, policyVersions, document, decodedDocument, text>>

\* main.go 53-56, 206
CallListGroupsForUser ==
    /\ pc = "ListGroupsForUser" /\ pending = "none"
    /\ out' = out \o <<Println(MAJOR_SEPARATOR),
                       Println("Getting groups for the current user..."),
                       Println(MAJOR_SEPARATOR)>>
    /\ log' = Append(log, CallEv("ListGroupsForUser"))
    /\ pending' = "ListGroupsForUser"
    /\ UNCHANGED <<pc, stdin, currentUserDetails, userGroups, userPolicies,
                   userInlinePolicies, input, policyArn, versionId, policyVersions,
                   document, decodedDocument, text>>

\* A main() that goes on to the attached policies although the group query failed.
ReturnListGroupsForUserGoesOn ==
    /\ pc = "ListGroupsForUser" /\ pending = "ListGroupsForUser"
    /\ pending' = "none"
    /\ \E ok \in BOOLEAN :
          /\ log' = Append(log, RetEv("ListGroupsForUser", ok))
          /\ IF ok
             THEN \E groups \in Lists :
                    /\ userGroups' = groups
                    /\ out' = out \o RangeLoop(groups, "group")
                    /\ pc' = "ListAttachedUserPolicies"
             ELSE /\ userGroups' = <<>>
                  /\ out' = out \o
                        <<Line("Couldn't get the groups for the user. Here's why: %v", <<>>),
                          Println("Couldn't get groups for the current user. Exiting...")>>
                  /\ pc' = "ListAttachedUserPolicies"
    /\ UNCHANGED <<stdin, currentUserDetails, userPolicies, userInlinePolicies, input,
                   policyArn, versionId, policyVersions, document, decodedDocument, text>>

\* main.go 206-215 (ListUserGroups), 57-68
ReturnListGroupsForUser ==
    /\ pc = "ListGroupsForUser" /\ pending = "ListGroupsForUser"
    /\ pending' = "none"
    /\ \E ok \in BOOLEAN :
          /\ log' = Append(log, RetEv("ListGroupsForUser", ok))
          /\ IF ok
             THEN \E groups \in Lists :
                    /\ userGroups' = groups
                    /\ out' = out \o RangeLoop(groups, "group")
                    /\ pc' = "ListAttachedUserPolicies"
             ELSE /\ userGroups' = <<>>
                  /\ out' = out \o
                        <<Line("Couldn't get the groups for the user. Here's why: %v", <<>>),
                          Println("Couldn't get groups for the current user. Exiting...")>>
                  /\ pc' = "done"
    /\ UNCHANGED <<stdin, currentUserDetails, userPolicies, userInlinePolicies, input,
                   policyArn, versionId, policyVersions, document, decodedDocument, text>>

\* main.go 72-75, 219
CallListAttachedUserPolicies ==
    /\ pc = "ListAttachedUserPolicies" /\ pending = "none"
    /\ out' = out \o <<Println(MAJOR_SEPARATOR),
                       Println("Getting attached policies for the current user..."),
                       Println(MAJOR_SEPARATOR)>>
    /\ log' = Append(log, CallEv("ListAttachedUserPolicies"))
    /\ pending' = "ListAttachedUserPolicies"
    /\ UNCHANGED <<pc, stdin, currentUserDetails, userGroups, userPolicies,
                   userInlinePolicies, input, policyArn, versionId, policyVersions,
                   document, decodedDocument, text>>

\* A main() that issues the attached-policy query again after it failed.
ReturnListAttachedUserPoliciesRetry ==
    /\ pc = "ListAttachedUserPolicies" /\ pending = "ListAttachedUserPolicies"
    /\ pending' = "none"
    /\ \E ok \in BOOLEAN :
          /\ log' = Append(log, RetEv("ListAttachedUserPolicies", ok))
          /\ IF ok
             THEN \E policies \in Lists :
                    /\ userPolicies' = policies
                    /\ out' = out \o RangeLoop(policies, "attached")
                    /\ pc' = "Prompt"
             ELSE /\ userPolicies' = <<>>
                  /\ out' = out \o
                        <<Line("Couldn't get the policies attached to the user. Here's why: %v", <<>>),
                          Println("Couldn't get attached policies for the current user. Exiting...")>>
                  /\ pc' = "ListAttachedUserPolicies"
    /\ UNCHANGED <<stdin, currentUserDetails, userGroups, userInlinePolicies, input,
                   policyArn, versionId, policyVersions, document, decodedDocument, text>>

\* main.go 219-228 (ListAttachedUserPolicies), 76-85
ReturnListAttachedUserPolicies ==
    /\ pc = "ListAttachedUserPolicies" /\ pending = "ListAttachedUserPolicies"
    /\ pending' = "none"
    /\ \E ok \in BOOLEAN :
          /\ log' = Append(log, RetEv("ListAttachedUserPolicies", ok))
          /\ IF ok
             THEN \E policies \in Lists :
                    /\ userPolicies' = policies
                    /\ out' = out \o RangeLoop(policies, "attached")
                    /\ pc' = "Prompt"
             ELSE /\ userPolicies' = <<>>
                  /\ out' = out \o
                        <<Line("Couldn't get the policies attached to the user. Here's why: %v", <<>>),
                          Println("Couldn't get attached policies for the current user. Exiting...")>>
                  /\ pc' = "done"
    /\ UNCHANGED <<stdin, currentUserDetails, userGroups, userInlinePolicies, input,
                   policyArn, versionId, policyVersions, document, decodedDocument, text>>

(***************************************************************************)
(* PromptUserForPolicyVersionDetails()                                     *)
(***************************************************************************)
\* An answer test that accepts any answer beginning with 'y'.
AnswerStartsWithY(answer) == answer # <<>> /\ Head(answer) = 121

\* main.go 118: input == "y"
IsYes(answer) == answer = <<121>>

\* main.go 115-118, 160-162
Prompt ==
    /\ pc = "Prompt" /\ pending = "none"
    /\ LET r == Scanln(stdin)
       IN  /\ out' = Append(out, Println("Do you want the details of any policy's version? (y/n): "))
           /\ stdin' = r.rest
           /\ input' = r.val
           /\ log' = Append(log, ScanEv(~r.err))
           /\ pc' = IF IsYes(r.val) THEN "ListPolicyVersions" ELSE "ListUserPolicies"
    /\ UNCHANGED <<pending, currentUserDetails, userGroups, userPolicies,
                   userInlinePolicies, policyArn, versionId, policyVersions,
                   document, decodedDocument, text>>

\* main.go 119-124, 168
CallListPolicyVersions ==
    /\ pc = "ListPolicyVersions" /\ pending = "none"
    /\ LET r == Scanln(stdin)
       IN  /\ out' = out \o <<Println("Enter the ARN of the policy: "),
                              Println("Available versions: ")>>
           /\ stdin' = r.rest
           /\ policyArn' = r.val
           /\ log' = log \o <<ScanEv(~r.err), CallEv("ListPolicyVersions")>>
    /\ pending' = "ListPolicyVersions"
    /\ UNCHANGED <<pc, currentUserDetails, userGroups, userPolicies, userInlinePolicies,
                   input, versionId, policyVersions, document, decodedDocument, text>>

\* An interactive branch that asks for a version ID although the listing failed.
ReturnListPolicyVersionsGoesOn ==
    /\ pc = "ListPolicyVersions" /\ pending = "ListPolicyVersions"
    /\ pending' = "none"
    /\ \E ok \in BOOLEAN :
          /\ log' = Append(log, RetEv("ListPolicyVersions", ok))
          /\ IF ok
             THEN \E versions \in Lists :
                    /\ policyVersions' = versions
                    /\ out' = out \o RangeLoop(versions, "version")
             ELSE /\ policyVersions' = <<>>
                  /\ out' = out \o
                        <<Line("Couldn't get details for the policy version. Here's why: %v", <<>>),
                          Println("Couldn't get details for the policy version")>>
          /\ pc' = "GetPolicyVersion"
    /\ UNCHANGED <<stdin, currentUserDetails, userGroups, userPolicies, userInlinePolicies,
                   input, policyArn, versionId, document, decodedDocument, text>>

\* main.go 168-177 (ListLatestPolicyVersions), 125-134
ReturnListPolicyVersions ==
    /\ pc = "ListPolicyVersions" /\ pending = "ListPolicyVersions"
    /\ pending' = "none"
    /\ \E ok \in BOOLEAN :
          /\ log' = Append(log, RetEv("ListPolicyVersions", ok))
          /\ IF ok
             THEN \E versions \in Lists :
                    /\ policyVersions' = versions
                    /\ out' = out \o RangeLoop(versions, "version")
                    /\ pc' = "GetPolicyVersion"
             ELSE /\ policyVersions' = <<>>
                  /\ out' = out \o
                        <<Line("Couldn't get details for the policy version. Here's why: %v", <<>>),
                          Println("Couldn't get details for the policy version")>>
                  /\ pc' = "ListUserPolicies"
    /\ UNCHANGED <<stdin, currentUserDetails, userGroups, userPolicies, userInlinePolicies,
                   input, policyArn, versionId, document, decodedDocument, text>>

\* main.go 136-140, 181
CallGetPolicyVersion ==
    /\ pc = "GetPolicyVersion" /\ pending = "none"
    /\ LET r == Scanln(stdin)
       IN  /\ out' = out \o <<Println("Enter the version ID to retrieve: "),
                              Line("Getting details for version  %v", r.val)>>
           /\ stdin' = r.rest
           /\ versionId' = r.val
           /\ log' = log \o <<ScanEv(~r.err), CallEv("GetPolicyVersion")>>
    /\ pending' = "GetPolicyVersion"
    /\ UNCHANGED <<pc, currentUserDetails, userGroups, userPolicies, userInlinePolicies,
                   input, policyArn, policyVersions, document, decodedDocument, text>>

\* A branch whose failures return from the whole program.
ReturnGetPolicyVersionFatal ==
    /\ pc = "GetPolicyVersion" /\ pending = "GetPolicyVersion"
    /\ pending' = "none"
    /\ \E ok \in BOOLEAN :
          /\ log' = Append(log, RetEv("GetPolicyVersion", ok))
          /\ IF ok
             THEN \E doc \in Documents :
                    LET d == QueryUnescape(doc)
                    IN  /\ document' = doc
                        /\ decodedDocument' = d
                        /\ out' = out \o
                              <<Println(MAJOR_SEPARATOR), Println("Policy version details:"),
                                Line("\tVersion ID: %v", versionId),
                                Line("\tCreated on: %v", versionId)>> \o
                              (IF d.err
                               THEN <<Println("Couldn't encode the document. Exiting...")>>
                               ELSE <<Line("\tDocument: \n%v", d.val), Println(MAJOR_SEPARATOR)>>)
                        /\ pc' = IF d.err THEN "done" ELSE "ListUserPolicies"
             ELSE /\ UNCHANGED <<document, decodedDocument>>
                  /\ out' = out \o
                        <<Line("Couldn't get details for the policy version. Here's why: %v", <<>>),
                          Println("Couldn't get details for the policy version")>>
                  /\ pc' = "done"
    /\ UNCHANGED <<stdin, currentUserDetails, userGroups, userPolicies, userInlinePolicies,
                   input, policyArn, versionId, policyVersions, text>>

\* main.go 181-191 (GetPolicyVersionDetails), 141-158
ReturnGetPolicyVersion ==
    /\ pc = "GetPolicyVersion" /\ pending = "GetPolicyVersion"
    /\ pending' = "none"
    /\ \E ok \in BOOLEAN :
          /\ log' = Append(log, RetEv("GetPolicyVersion", ok))
          /\ IF ok
             THEN \E doc \in Documents :
                    LET d == QueryUnescape(doc)
                    IN  /\ document' = doc
                        /\ decodedDocument' = d
                        /\ out' = out \o
                              <<Println(MAJOR_SEPARATOR), Println("Policy version details:"),
                                Line("\tVersion ID: %v", versionId),
                                Line("\tCreated on: %v", versionId)>> \o
                              (IF d.err
                               THEN <<Println("Couldn't encode the document. Exiting...")>>
                               ELSE <<Line("\tDocument: \n%v", d.val), Println(MAJOR_SEPARATOR)>>)
             ELSE /\ UNCHANGED <<document, decodedDocument>>
                  /\ out' = out \o
                        <<Line("Couldn't get details for the policy version. Here's why: %v", <<>>),
                          Println("Couldn't get details for the policy version")>>
          /\ pc' = "ListUserPolicies"
    /\ UNCHANGED <<stdin, currentUserDetails, userGroups, userPolicies, userInlinePolicies,
                   input, policyArn, versionId, policyVersions, text>>

(***************************************************************************)
(* main(), after the interactive branch                                    *)
(***************************************************************************)
\* main.go 92-95, 232
CallListUserPolicies ==
    /\ pc = "ListUserPolicies" /\ pending = "none"
    /\ out' = out \o <<Println(MAJOR_SEPARATOR),
                       Println("Getting inline policies for the current user..."),
                       Println(MAJOR_SEPARATOR)>>
    /\ log' = Append(log, CallEv("ListUserPolicies"))
    /\ pending' = "ListUserPolicies"
    /\ UNCHANGED <<pc, stdin, currentUserDetails, userGroups, userPolicies,
                   userInlinePolicies, input, policyArn, versionId, policyVersions,
                   document, decodedDocument, text>>

\* A main() that says "All done!" whatever the inline-policy query returned.
ReturnListUserPoliciesAlwaysDone ==
    /\ pc = "ListUserPolicies" /\ pending = "ListUserPolicies"
    /\ pending' = "none"
    /\ \E ok \in BOOLEAN :
          /\ log' = Append(log, RetEv("ListUserPolicies", ok))
          /\ IF ok
             THEN \E names \in Lists :
                    /\ userInlinePolicies' = names
                    /\ out' = out \o RangeLoop(names, "inline") \o <<Println("All done!")>>
             ELSE /\ userInlinePolicies' = <<>>
                  /\ out' = out \o
                        <<Line("Couldn't get the inline policies attached to the user. Here's why: %v", <<>>),
                          Println("Couldn't get inline policies for the current user. Exiting..."),
                          Println("All done!")>>
          /\ pc' = "done"
    /\ UNCHANGED <<stdin, currentUserDetails, userGroups, userPolicies, input,
                   policyArn, versionId, policyVersions, document, decodedDocument, text>>

\* main.go 232-241 (ListInlineUserPolicies), 96-106
ReturnListUserPolicies ==
    /\ pc = "ListUserPolicies" /\ pending = "ListUserPolicies"
    /\ pending' = "none"
    /\ \E ok \in BOOLEAN :
          /\ log' = Append(log, RetEv("ListUserPolicies", ok))
          /\ IF ok
             THEN \E names \in Lists :
                    /\ userInlinePolicies' = names
                    /\ out' = out \o RangeLoop(names, "inline") \o <<Println("All done!")>>
             ELSE /\ userInlinePolicies' = <<>>
                  /\ out' = out \o
                        <<Line("Couldn't get the inline policies attached to the user. Here's why: %v", <<>>),
                          Println("Couldn't get inline policies for the current user. Exiting...")>>
          /\ pc' = "done"
    /\ UNCHANGED <<stdin, currentUserDetails, userGroups, userPolicies, input,
                   policyArn, versionId, policyVersions, document, decodedDocument, text>>

Next ==
    \/ LoadDefaultConfig
    \/ CallGetUser
    \/ ReturnGetUser
    \/ CallListGroupsForUser
    \/ ReturnListGroupsForUser
    \/ CallListAttachedUserPolicies
    \/ ReturnListAttachedUserPolicies
    \/ Prompt
    \/ CallListPolicyVersions
    \/ ReturnListPolicyVersions
    \/ CallGetPolicyVersion
    \/ ReturnGetPolicyVersion
    \/ CallListUserPolicies
    \/ ReturnListUserPolicies

Spec == Init /\ [][Next]_vars

\* The single thread runs until main() returns; every request gets a response.
FairSpec == Spec /\ WF_vars(Next)

(***************************************************************************)
(* The document round trip on its own: a policy text is URL-encoded by the *)
(* service and decoded as at main.go 151.                                  *)
(***************************************************************************)
CodecInit ==
    /\ pc = "codec"
    /\ stdin = <<>>
    /\ text \in SeqsUpTo(TextBytes, MaxText)
    /\ Blank

EncodeForm ==
    /\ pc = "codec"
    /\ document' = QueryEscape(text)
    /\ pc' = "encoded"
    /\ UNCHANGED <<stdin, out, log, pending, currentUserDetails, userGroups, userPolicies,
                   userInlinePolicies, input, policyArn, versionId, policyVersions,
                   decodedDocument, text>>

EncodeRFC3986 ==
    /\ pc = "codec"
    /\ document' = PercentEncode(text)
    /\ pc' = "encoded"
    /\ UNCHANGED <<stdin, out, log, pending, currentUserDetails, userGroups, userPolicies,
                   userInlinePolicies, input, policyArn, versionId, policyVersions,
                   decodedDocument, text>>

\* main.go 151
Decode ==
    /\ pc = "encoded"
    /\ decodedDocument' = QueryUnescape(document)
    /\ pc' = "decoded"
    /\ UNCHANGED <<stdin, out, log, pending, currentUserDetails, userGroups, userPolicies,
                   userInlinePolicies, input, policyArn, versionId, policyVersions,
                   document, text>>

CodecNext == EncodeForm \/ EncodeRFC3986 \/ Decode

CodecSpec == CodecInit /\ [][CodecNext]_vars

(***************************************************************************)
(* Observations on the log and on the output                               *)
(***************************************************************************)
PromptText == "Do you want the details of any policy's version? (y/n): "
GroupsHeader == "Getting groups for the current user..."
AttachedHeader == "Getting attached policies for the current user..."
InlineHeader == "Getting inline policies for the current user..."
ClosingText == "All done!"

IsCallEv(e) == e.kind = "call"
IsRemoteEv(e) == e.kind \in {"call", "ret"}
IsScanEv(e) == e.kind = "scan"

\* The remote operations issued so far, in issue order.
CallOps == LET c == SelectSeq(log, IsCallEv) IN [i \in DOMAIN c |-> c[i].op]
\* The call and return events alone.
RemoteLog == SelectSeq(log, IsRemoteEv)
ScanCount == Len(SelectSeq(log, IsScanEv))

Called(op) == \E i \in DOMAIN log : log[i] = CallEv(op)
Succeeded(op) == \E i \in DOMAIN log : log[i] = RetEv(op, TRUE)
Failed(op) == \E i \in DOMAIN log : log[i] = RetEv(op, FALSE)
ConfigFailed == \E i \in DOMAIN log : log[i] = ConfigEv(FALSE)
ConfigLoaded == \E i \in DOMAIN log : log[i] = ConfigEv(TRUE)

Printed(t) == \E i \in DOMAIN out : out[i].text = t
Count(t) == Cardinality({i \in DOMAIN out : out[i].text = t})
LastLine == IF out = <<>> THEN Println("") ELSE out[Len(out)]

FailureTexts ==
    {"Couldn't load default configuration. Have you set up your AWS account?",
     "Couldn't get details for the user. Here's why: %v",
     "Couldn't get details for the current user. Exiting...",
     "Couldn't get the groups for the user. Here's why: %v",
     "Couldn't get groups for the current user. Exiting...",
     "Couldn't get the policies attached to the user. Here's why: %v",
     "Couldn't get attached policies for the current user. Exiting...",
     "Couldn't get details for the policy version. Here's why: %v",
     "Couldn't get details for the policy version",
     "Couldn't encode the document. Exiting...",
     "Couldn't get the inline policies attached to the user. Here's why: %v",
     "Couldn't get inline policies for the current user. Exiting..."}

FailureMessages == {i \in DOMAIN out : out[i].text \in FailureTexts}

\* Lines only the interactive branch prints once the answer was "y".
VersionTexts ==
    {"Enter the ARN of the policy: ", "Available versions: ", "\tVersion ID: %v",
     "Enter the version ID to retrieve: ", "Getting details for version  %v",
     "Policy version details:", "\tDocument: \n%v",
     "Couldn't get details for the policy version. Here's why: %v",
     "Couldn't get details for the policy version",
     "Couldn't encode the document. Exiting..."}

VersionLines == {i \in DOMAIN out : out[i].text \in VersionTexts}
VersionCalls ==
    {i \in DOMAIN log : log[i].kind = "call"
                        /\ log[i].op \in {"ListPolicyVersions", "GetPolicyVersion"}}

(***************************************************************************)
(* C1                                                                      *)
(***************************************************************************)
GetUserFailureStops ==
    /\ pc = "done"
    /\ pending = "none"
    /\ CallOps = <<"GetUser">>
    /\ ScanCount = 0
    /\ ~Printed(PromptText)

\* C1 as stated: when GetUser fails, no further remote query is attempted,
\* the interactive prompt is never shown, and the program terminates having
\* printed exactly one failure message.
C1_OneFailureMessage ==
    Failed("GetUser") => GetUserFailureStops /\ Cardinality(FailureMessages) = 1

\* C1 amended: when GetUser fails, no further remote query is attempted, the
\* interactive prompt is never shown, and the program terminates having
\* printed exactly two failure messages: GetUserDetails' message carrying the
\* error, then main's "Couldn't get details for the current user. Exiting...".
C1_TwoFailureMessages ==
    Failed("GetUser") =>
        /\ GetUserFailureStops
        /\ Cardinality(FailureMessages) = 2
        /\ Len(out) >= 2
        /\ out[Len(out) - 1].text = "Couldn't get details for the user. Here's why: %v"
        /\ out[Len(out)].text = "Couldn't get details for the current user. Exiting..."

C1_Witness == Failed("GetUser") /\ pc = "done" /\ stdin # <<>>

(***************************************************************************)
(* C2                                                                      *)
(***************************************************************************)
TopLevelLists == {"ListGroupsForUser", "ListAttachedUserPolicies", "ListUserPolicies"}

ExitingText(op) ==
    CASE op = "ListGroupsForUser" -> "Couldn't get groups for the current user. Exiting..."
      [] op = "ListAttachedUserPolicies" ->
            "Couldn't get attached policies for the current user. Exiting..."
      [] op = "ListUserPolicies" -> "Couldn't get inline policies for the current user. Exiting..."

\* C2: once ListGroupsForUser, ListAttachedUserPolicies or ListUserPolicies has
\* failed, the program has ended: the failed return is the last event, so no
\* later remote call or read happens; the failure report is the last output,
\* so no later section or item line is printed; the prompt is not shown unless
\* it had been reached before; and "All done!" is never printed.
C2_TopLevelFailureIsFatal ==
    \A op \in TopLevelLists :
        Failed(op) =>
            /\ pc = "done"
            /\ pending = "none"
            /\ log[Len(log)] = RetEv(op, FALSE)
            /\ LastLine = Println(ExitingText(op))
            /\ ~Printed(ClosingText)
            /\ (op # "ListUserPolicies" => ~Printed(PromptText) /\ ScanCount = 0)

C2_Witness ==
    /\ Failed("ListAttachedUserPolicies")
    /\ Len(userGroups) = MaxList
    /\ stdin = <<121, 10>>

(***************************************************************************)
(* C8                                                                      *)
(***************************************************************************)
\* C8: when the configuration cannot be loaded the program has ended with the
\* guidance message and the error as its only output; no IAM call was issued,
\* no report section was printed and nothing was read from standard input.
C8_ConfigErrorExits ==
    ConfigFailed =>
        /\ pc = "done"
        /\ log = <<ConfigEv(FALSE)>>
        /\ pending = "none"
        /\ out = <<Println("Couldn't load default configuration. Have you set up your AWS account?"),
                   Line("%v", <<>>)>>
        /\ input = <<>> /\ policyArn = <<>> /\ versionId = <<>>

C8_Witness == ConfigFailed /\ pc = "done" /\ Len(stdin) = MaxStdin

(***************************************************************************)
(* C3                                                                      *)
(***************************************************************************)
DecodeFailed == Printed("Couldn't encode the document. Exiting...")
DocumentPrinted == Printed("\tDocument: \n%v")
BranchFailed == Failed("ListPolicyVersions") \/ Failed("GetPolicyVersion") \/ DecodeFailed

C3_AfterBranchFailure ==
    BranchFailed =>
        /\ pc \in {"ListUserPolicies", "done"}
        /\ (pc = "done" => Called("ListUserPolicies"))
        /\ (Succeeded("ListUserPolicies") => LastLine = Println(ClosingText))

\* C3: a failure inside the interactive branch (ListPolicyVersions fails,
\* GetPolicyVersion fails, or the document does not decode) ends only the
\* branch: main() is then at the inline-policy query, that query is eventually
\* issued, and when it succeeds the closing message is the last line printed.
C3_BranchFailureIsLocal ==
    /\ [](C3_AfterBranchFailure)
    /\ (BranchFailed ~> Called("ListUserPolicies"))

C3_Witness ==
    /\ DecodeFailed
    /\ Succeeded("ListUserPolicies")
    /\ LastLine = Println(ClosingText)

(***************************************************************************)
(* C4                                                                      *)
(***************************************************************************)
\* C4: when the answer read at the prompt is not exactly "y", the version
\* branch is skipped: ListPolicyVersions and GetPolicyVersion are never
\* called, the prompt's Scanln stays the only read (no ARN, no version ID),
\* and no version-related line is printed.
C4_NotYesSkipsBranch ==
    (Printed(PromptText) /\ input # <<121>>) =>
        /\ VersionCalls = {}
        /\ ScanCount = 1
        /\ policyArn = <<>>
        /\ versionId = <<>>
        /\ VersionLines = {}
        /\ pc \in {"ListUserPolicies", "done"}

C4_Witness ==
    /\ pc = "done"
    /\ Printed(ClosingText)
    /\ input = <<89>>
    /\ stdin = <<121>>

(***************************************************************************)
(* C5                                                                      *)
(***************************************************************************)
FixedOrder ==
    <<"GetUser", "ListGroupsForUser", "ListAttachedUserPolicies",
      "ListPolicyVersions", "GetPolicyVersion", "ListUserPolicies">>

OrderOf(op) == CHOOSE k \in DOMAIN FixedOrder : FixedOrder[k] = op

\* The operation whose success a call needs first.
Requires(op) ==
    CASE op = "GetUser" -> "GetUser"
      [] op = "ListGroupsForUser" -> "GetUser"
      [] op = "ListAttachedUserPolicies" -> "ListGroupsForUser"
      [] op = "ListPolicyVersions" -> "ListAttachedUserPolicies"
      [] op = "GetPolicyVersion" -> "ListPolicyVersions"
      [] op = "ListUserPolicies" -> "ListAttachedUserPolicies"

\* C5: the remote calls issued form a strictly increasing selection from the
\* fixed order (so each operation is issued at most once, also after it
\* failed), each call comes after the success of the step it depends on, at
\* most one request is in flight, and every call but a pending last one is
\* directly followed by its own return.
C5_LinearNoRetry ==
    /\ \A i, j \in DOMAIN CallOps : i < j => OrderOf(CallOps[i]) < OrderOf(CallOps[j])
    /\ \A i \in DOMAIN CallOps :
          /\ CallOps[i] \in {FixedOrder[k] : k \in DOMAIN FixedOrder}
          /\ (i = 1 => CallOps[i] = "GetUser")
          /\ (i > 1 => Succeeded(Requires(CallOps[i])))
    /\ \A i \in DOMAIN RemoteLog :
          IF i % 2 = 1
          THEN /\ RemoteLog[i].kind = "call"
               /\ (i = Len(RemoteLog) => pending = RemoteLog[i].op)
          ELSE /\ RemoteLog[i].kind = "ret"
               /\ RemoteLog[i].op = RemoteLog[i - 1].op
    /\ (Len(RemoteLog) % 2 = 0 => pending = "none")

C5_Witness ==
    /\ pc = "done"
    /\ CallOps = FixedOrder
    /\ Failed("ListUserPolicies")

(***************************************************************************)
(* C6                                                                      *)
(***************************************************************************)
\* The states of the interactive branch, read off the program's state.
BranchOver == Printed(PromptText) /\ pc \in {"ListUserPolicies", "done"}
Idle == Printed(PromptText) /\ input # <<121>>
ArnEntered == pc = "ListPolicyVersions" /\ pending = "ListPolicyVersions"
VersionsListed == pc = "GetPolicyVersion"
VersionFetched == DocumentPrinted
Aborted == BranchFailed
Terminal == Idle \/ VersionFetched \/ Aborted

C6_Order ==
    /\ (Printed("Enter the version ID to retrieve: ") \/ Called("GetPolicyVersion")
            => Succeeded("ListPolicyVersions"))
    /\ (Called("ListPolicyVersions") => input = <<121>> /\ ScanCount >= 2)
    /\ (ArnEntered => ~Terminal)
    /\ (VersionsListed => Succeeded("ListPolicyVersions") /\ ~Terminal)
    /\ (VersionFetched =>
            Succeeded("ListPolicyVersions") /\ Succeeded("GetPolicyVersion") /\ ~decodedDocument.err)
    /\ (Terminal => BranchOver)
    /\ (BranchOver => Terminal)
    /\ ~(Idle /\ VersionFetched) /\ ~(Idle /\ Aborted) /\ ~(VersionFetched /\ Aborted)

C6_TerminalStep ==
    Terminal => /\ ScanCount' = ScanCount
                /\ VersionCalls' = VersionCalls
                /\ VersionLines' = VersionLines
                /\ Count(PromptText)' = Count(PromptText)

\* C6: the interactive branch follows Start -> {Idle | ArnEntered} ->
\* VersionsListed -> {VersionFetched | Aborted}: the version-ID prompt and the
\* GetPolicyVersion call come only after a successful ListPolicyVersions; the
\* document is printed only after both calls succeeded; the branch is over
\* exactly in one of Idle, VersionFetched, Aborted, and any failure in it is
\* Aborted; from a terminal state no step prompts, reads input or issues a
\* version call.
C6_BranchStateMachine == [](C6_Order) /\ [][C6_TerminalStep]_vars

C6_Witness ==
    /\ VersionFetched
    /\ pc = "done"
    /\ decodedDocument.val = <<123, 32, 97>>
    /\ policyArn = <<110>>

(***************************************************************************)
(* C7                                                                      *)
(***************************************************************************)
SectionStarts == {GroupsHeader, AttachedHeader, InlineHeader, PromptText, ClosingText}

IsItemLine(l) == l.text # MAJOR_SEPARATOR

\* The lines a section printed below its header, up to the next section, the
\* prompt or the closing message; the major separators left out.
SectionItems(header) ==
    LET h == CHOOSE i \in DOMAIN out : out[i].text = header
        later == {i \in DOMAIN out : i > h /\ out[i].text \in SectionStarts}
        stop == IF later = {} THEN Len(out) + 1
                ELSE CHOOSE i \in later : \A k \in later : i <= k
    IN  SelectSeq(SubSeq(out, h + 1, stop - 1), IsItemLine)

OneBlockPerElement(items, list, kind) ==
    LET k == Len(Block(kind, 0))
    IN  /\ Len(items) = k * Len(list)
        /\ \A i \in DOMAIN list :
              SubSeq(items, (i - 1) * k + 1, i * k) = Block(kind, list[i])

\* C7: each list section whose query succeeded holds exactly one item block
\* per element of the returned list, in list order, and nothing else; for an
\* empty list it holds no item line at all.
C7_OneBlockPerElement ==
    /\ (Succeeded("ListGroupsForUser") =>
            OneBlockPerElement(SectionItems(GroupsHeader), userGroups, "group"))
    /\ (Succeeded("ListAttachedUserPolicies") =>
            OneBlockPerElement(SectionItems(AttachedHeader), userPolicies, "attached"))
    /\ (Succeeded("ListUserPolicies") =>
            OneBlockPerElement(SectionItems(InlineHeader), userInlinePolicies, "inline"))

\* 2 groups, 1 attached policy, 0 inline policies, answer "n".
C7_Witness ==
    /\ pc = "done"
    /\ Succeeded("ListUserPolicies")
    /\ Len(userGroups) = 2
    /\ Len(userPolicies) = 1
    /\ userInlinePolicies = <<>>
    /\ input = <<110>>
    /\ Len(SectionItems(GroupsHeader)) = 2 * Len(GroupBlock(0))
    /\ Len(SectionItems(AttachedHeader)) = Len(AttachedPolicyBlock(0))
    /\ SectionItems(InlineHeader) = <<>>
    /\ VersionLines = {}

(***************************************************************************)
(* C9                                                                      *)
(***************************************************************************)
\* C9: a policy text that was URL-encoded (form encoding or RFC 3986) and
\* then decoded by url.QueryUnescape comes back unchanged, without error.
C9_RoundTrip ==
    pc = "decoded" => ~decodedDocument.err /\ decodedDocument.val = text

C9_Witness ==
    /\ pc = "decoded"
    /\ text = <<32, 43, 37>>
    /\ document = <<43, 37, 50, 66, 37, 50, 53>>

(***************************************************************************)
(* C10                                                                     *)
(***************************************************************************)
TopLevelQueries ==
    {"GetUser", "ListGroupsForUser", "ListAttachedUserPolicies", "ListUserPolicies"}

C10_ClosingAtEnd ==
    /\ (Printed(ClosingText) =>
            pc = "done" /\ Count(ClosingText) = 1 /\ LastLine = Println(ClosingText))
    /\ (pc = "done" =>
            (Printed(ClosingText) <=>
                ConfigLoaded /\ \A op \in TopLevelQueries : Succeeded(op)))

\* C10: every run reaches the end of main(); at the end "All done!" has been
\* printed exactly when the configuration loaded and GetUser,
\* ListGroupsForUser, ListAttachedUserPolicies and ListUserPolicies all
\* succeeded, whatever the interactive branch did; it is printed once, as the
\* last line, and nothing is printed after it.
C10_TerminatesWithClosing == <>(pc = "done") /\ [](C10_ClosingAtEnd)

C10_Witness ==
    /\ Printed(ClosingText)
    /\ Failed("GetPolicyVersion")
    /\ userInlinePolicies # <<>>

=============================================================================
